---------------------------- MODULE Spec2Model ----------------------------
(***************************************************************************)
(* A model of andes/system.py: the PowerSystem object, its construction   *)
(* (inst_models), its set-up pipeline (setup, to_sysbase, init_pf,         *)
(* td_init), the removal of static generators (rmgen), the island check    *)
(* and the result extractors.                                              *)
(*                                                                         *)
(* ps    is the PowerSystem object: its registry, settings, DAE container, *)
(*       name table and the device tables the methods read.                *)
(* trace is the list of collaborator calls the last method made, in order. *)
(* log   is the list of messages the last method logged, in order.         *)
(* ret   is the value the last method returned.                            *)
(* pc    is the place of the run in the caller's pipeline.                 *)
(* last  is the last method called and the argument it was called with.    *)
(***************************************************************************)
EXTENDS Integers, Sequences, FiniteSets, TLC

VARIABLES ps, trace, log, ret, pc, last

vars == <<ps, trace, log, ret, pc, last>>

(***************************************************************************)
(* Bounds of the model.                                                    *)
(***************************************************************************)
\* largest instance count of a device in the pipeline runs
MaxN == 1
\* most calls of to_sysbase() made on their own in one run
MaxConv == 1
\* number of buses of the networks given to check_islands
NBus == 4
\* most in-service lines of those networks
MaxLines == 2
\* most slack generators of those networks
MaxSW == 2
\* most rows of a device table given to the result extractors
MaxRows == 3
\* decimal digits carried by a solved value (values are integers in units of 10^-FracDigits)
FracDigits == 2

\* largest instance count of a device in the runs of rmgen
MaxGen == 2
\* most entries of the list given to rmgen
MaxIdx == 2

\* rad2deg of andes.consts (180/pi), cut to its integer part
rad2deg == 57

(***************************************************************************)
(* Small helpers.                                                          *)
(***************************************************************************)
Min(a, b) == IF a < b THEN a ELSE b

Range(s) == {s[i] : i \in 1..Len(s)}

\* the sequence i |-> f(i) of length k is written [i \in 1..k |-> ...]
Zeros(k) == [i \in 1..k |-> 0]

\* a collaborator call: the method called and the device it is called on
Ev(call, dev) == [call |-> call, dev |-> dev]

\* a log message: its level, its text and its formatted arguments
Msg(level, text, args) == [level |-> level, text |-> text, args |-> args]

\* a returned value: None, a tuple, or the lists a generator yields
None == [kind |-> "None", val |-> <<>>]

Tuple(t) == [kind |-> "tuple", val |-> t]

Lists(g) == [kind |-> "lists", val |-> g]

NoRange == [set |-> FALSE, x0 |-> 0, xn |-> 0, y0 |-> 0, yn |-> 0]

(***************************************************************************)
(* The model library (andes.models): non_jits and jits list the models in  *)
(* file order; each model reports how many state and algebraic variables   *)
(* one instance owns.                                                      *)
(***************************************************************************)
non_jits == <<"Bus", "SW", "Line", "Node">>

jits == <<"Syn">>

Names == Range(non_jits)

\* the order-sensitive models, in the order DevMan.sort_device puts them
DevOrder == <<"Bus", "Node", "Line", "SW">>

NStates == [d \in Names |-> CASE d = "Bus" -> 0 [] d = "SW" -> 1 [] d = "Line" -> 1 [] d = "Node" -> 0]

NAlgebs == [d \in Names |-> CASE d = "Bus" -> 2 [] d = "SW" -> 1 [] d = "Line" -> 0 [] d = "Node" -> 1]


(***************************************************************************)
(* Device tables as the data loader leaves them.  A table is indexed by    *)
(* position 0..n-1 (TLA+ sequences by 1..n); idx holds the external index  *)
(* of each row and uid maps an external index to its position.             *)
(***************************************************************************)
Uid(idx) == [e \in Range(idx) |-> (CHOOSE k \in 1..Len(idx) : idx[k] = e) - 1]

BusTable(idx) ==
    [idx |-> idx,
     name |-> [k \in 1..Len(idx) |-> <<"Bus", k>>],
     uid |-> Uid(idx),
     a |-> <<>>, v |-> <<>>,
     Pg |-> Zeros(Len(idx)), Qg |-> Zeros(Len(idx)),
     Pl |-> Zeros(Len(idx)), Ql |-> Zeros(Len(idx)),
     island_sets |-> <<>>, islanded_buses |-> <<>>]

NodeTable(idx) ==
    [idx |-> idx,
     name |-> [k \in 1..Len(idx) |-> <<"Node", k>>],
     uid |-> Uid(idx),
     v |-> <<>>]

LineTable(idx, ends) ==
    [idx |-> idx,
     uid |-> Uid(idx),
     bus1 |-> [k \in 1..Len(idx) |-> ends[k][1]],
     bus2 |-> [k \in 1..Len(idx) |-> ends[k][2]],
     S1 |-> [k \in 1..Len(idx) |-> [real |-> 0, imag |-> 0]],
     S2 |-> [k \in 1..Len(idx) |-> [real |-> 0, imag |-> 0]]]

SWTable(bus) ==
    [idx |-> [k \in 1..Len(bus) |-> k],
     uid |-> Uid([k \in 1..Len(bus) |-> k]),
     bus |-> bus]

\* the instance count n of each model
Counts(cfg) ==
    [d \in Names |-> CASE d = "Bus" -> Len(cfg.bus)
                       [] d = "SW" -> Len(cfg.sw)
                       [] d = "Line" -> Len(cfg.lineidx)
                       [] d = "Node" -> Len(cfg.node)]

(***************************************************************************)
(* PowerSystem.inst_models (called by __init__): every non-JIT model whose *)
(* import succeeds is instantiated and registered; a failing import is     *)
(* logged.  JIT models are set as attributes and not registered.           *)
(***************************************************************************)
\* faulty variant: the first failing import ends the loop over the non-JIT models
RECURSIVE inst_non_jits_abort(_, _, _)
inst_non_jits_abort(r, i, failed) ==
    IF i > Len(non_jits) THEN r
    ELSE LET name == non_jits[i] IN
         IF name \in failed
         THEN [r EXCEPT !.log = Append(@, Msg("error", "Error adding non-JIT model", <<name>>))]
         ELSE inst_non_jits_abort([r EXCEPT !.models = @ \cup {name},
                                          !.devices = Append(@, name)],
                                i + 1, failed)

RECURSIVE inst_non_jits(_, _, _)
inst_non_jits(r, i, failed) ==
    IF i > Len(non_jits) THEN r
    ELSE LET name == non_jits[i] IN
         IF name \in failed
         THEN inst_non_jits([r EXCEPT !.log = Append(@, Msg("error", "Error adding non-JIT model", <<name>>))],
                          i + 1, failed)
         ELSE inst_non_jits([r EXCEPT !.models = @ \cup {name},
                                    !.devices = Append(@, name)],
                          i + 1, failed)

inst_models(failed) ==
    LET r == inst_non_jits([models |-> {}, devices |-> <<>>, log |-> <<>>], 1, failed)
    IN  [r EXCEPT !.models = @ \cup Range(jits)]

(***************************************************************************)
(* PowerSystem.__init__ followed by the loading of the case data cfg:      *)
(* the object setup() is called on.                                        *)
(***************************************************************************)
NewSystem(cfg) ==
    LET reg == inst_models(cfg.failed) IN
    [devices |-> reg.devices,
     models |-> reg.models,
     n |-> Counts(cfg),
     flags |-> cfg.flags,
     Call |-> [pflow |-> <<>>, init0 |-> <<>>, init1 |-> <<>>, stagen |-> <<>>],
     base |-> cfg.base,
     solved |-> FALSE,
     usedegree |-> cfg.usedegree,
     addr |-> [d \in Names |-> NoRange],
     DAE |-> [n |-> 0, m |-> 0, x |-> <<>>, y |-> <<>>],
     VarName |-> [nx |-> 0, ny |-> 0, unamex |-> {}, unamey |-> {}],
     nconv |-> [d \in Names |-> 0],
     off |-> [d \in Names |-> {}],
     Bus |-> BusTable(cfg.bus),
     Node |-> NodeTable(cfg.node),
     Line |-> LineTable(cfg.lineidx, cfg.lineends),
     SW |-> SWTable(cfg.sw)]

\* a method starts with an empty call trace and an empty log
Enter(p) == [ps |-> p, trace |-> <<>>, log |-> <<>>, ret |-> None]

Invoke(r, call, dev) == [r EXCEPT !.trace = Append(@, Ev(call, dev))]

Emit(r, level, text, args) == [r EXCEPT !.log = Append(@, Msg(level, text, args))]

(***************************************************************************)
(* The collaborators' methods, as far as the PowerSystem depends on them.  *)
(***************************************************************************)
\* DevMan.sort_device: the registry in the fixed order of DevOrder
sort_device(r) ==
    LET sorted == SelectSeq(DevOrder, LAMBDA d : d \in Range(r.ps.devices))
    IN  Invoke([r EXCEPT !.ps.devices = sorted], "DevMan.sort_device", "")

\* Call.setup: one flag list per capability, parallel to the registry
Call_setup(r) ==
    LET devs == r.ps.devices
        f == r.ps.flags
    IN  Invoke([r EXCEPT !.ps.Call =
                   [pflow |-> [i \in 1..Len(devs) |-> f[devs[i]].pflow],
                    init0 |-> [i \in 1..Len(devs) |-> f[devs[i]].init0],
                    init1 |-> [i \in 1..Len(devs) |-> f[devs[i]].init1],
                    stagen |-> [i \in 1..Len(devs) |-> f[devs[i]].stagen]]],
               "Call.setup", "")

\* device._addr: the device takes the next slots at the end of x and of y
dev_addr(r, d) ==
    LET k == r.ps.n[d]
        x0 == r.ps.DAE.n
        y0 == r.ps.DAE.m
        xn == k * NStates[d]
        yn == k * NAlgebs[d]
        r1 == [r EXCEPT !.ps.addr[d] = [set |-> TRUE, x0 |-> x0, xn |-> xn, y0 |-> y0, yn |-> yn],
                        !.ps.DAE.n = x0 + xn,
                        !.ps.DAE.m = y0 + yn]
        r2 == CASE d = "Bus" -> [r1 EXCEPT !.ps.Bus.a = [i \in 1..k |-> y0 + i - 1],
                                           !.ps.Bus.v = [i \in 1..k |-> y0 + k + i - 1]]
                 [] d = "Node" -> [r1 EXCEPT !.ps.Node.v = [i \in 1..k |-> y0 + i - 1]]
                 [] OTHER -> r1
    IN  Invoke(r2, "_addr", d)

\* VarName.resize: the name tables take the current lengths DAE.n and DAE.m
VarName_resize(r) ==
    Invoke([r EXCEPT !.ps.VarName.nx = r.ps.DAE.n, !.ps.VarName.ny = r.ps.DAE.m],
           "VarName.resize", "")

\* device._varname: the device names the slots it holds
dev_varname(r, d) ==
    LET a == r.ps.addr[d] IN
    Invoke([r EXCEPT !.ps.VarName.unamex = @ \cup {a.x0 + i : i \in 0..(a.xn - 1)},
                     !.ps.VarName.unamey = @ \cup {a.y0 + i : i \in 0..(a.yn - 1)}],
           "_varname", d)

\* DAE.setup: x and y are created zero-filled with DAE.n and DAE.m entries
DAE_setup(r) ==
    Invoke([r EXCEPT !.ps.DAE.x = Zeros(r.ps.DAE.n), !.ps.DAE.y = Zeros(r.ps.DAE.m)],
           "DAE.setup", "")

\* DAE.init_xy: x and y are reset to zeros of the current sizes
DAE_init_xy(r) ==
    Invoke([r EXCEPT !.ps.DAE.x = Zeros(r.ps.DAE.n), !.ps.DAE.y = Zeros(r.ps.DAE.m)],
           "DAE.init_xy", "")

\* DAE.init1: x and y grow to DAE.n and DAE.m entries, the old entries kept
DAE_init1(r) ==
    LET d == r.ps.DAE IN
    Invoke([r EXCEPT !.ps.DAE.x = [i \in 1..d.n |-> IF i <= Len(d.x) THEN d.x[i] ELSE 0],
                     !.ps.DAE.y = [i \in 1..d.m |-> IF i <= Len(d.y) THEN d.y[i] ELSE 0]],
           "DAE.init1", "")

\* device.param_to_sysbase: the device's parameters are rescaled once more
param_to_sysbase(r, d) ==
    Invoke([r EXCEPT !.ps.nconv[d] = @ + 1], "param_to_sysbase", d)

\* device.disable_gen(gen): the device takes the generator gen out of service
disable_gen(r, d, gen) ==
    [r EXCEPT !.trace = Append(@, [call |-> "disable_gen", dev |-> d, gen |-> gen]),
              !.ps.off[d] = @ \cup {gen}]

(***************************************************************************)
(* PowerSystem.to_sysbase                                                  *)
(***************************************************************************)
RECURSIVE to_sysbase_loop(_, _)
to_sysbase_loop(r, i) ==
    IF i > Len(r.ps.devices) THEN r
    ELSE to_sysbase_loop(param_to_sysbase(r, r.ps.devices[i]), i + 1)

to_sysbase(r) ==
    IF r.ps.base THEN to_sysbase_loop(r, 1) ELSE r

(***************************************************************************)
(* PowerSystem.dev_setup                                                   *)
(***************************************************************************)
\* faulty variant: setup is called on every device, with instances or without
RECURSIVE dev_setup_loop_all(_, _)
dev_setup_loop_all(r, i) ==
    IF i > Len(r.ps.devices) THEN r
    ELSE dev_setup_loop_all(Invoke(r, "setup", r.ps.devices[i]), i + 1)

RECURSIVE dev_setup_loop(_, _)
dev_setup_loop(r, i) ==
    IF i > Len(r.ps.devices) THEN r
    ELSE LET device == r.ps.devices[i] IN
         dev_setup_loop(IF r.ps.n[device] # 0 THEN Invoke(r, "setup", device) ELSE r, i + 1)

dev_setup(r) == dev_setup_loop(r, 1)

(***************************************************************************)
(* PowerSystem.xy_addr0 and xy_addr1.  zip() stops at the shorter of the   *)
(* registry and the flag list.                                             *)
(***************************************************************************)
ZipLen(r) == Min(Len(r.ps.devices), Len(r.ps.Call.pflow))

AddrAndIntf(r, device) ==
    Invoke(Invoke(dev_addr(r, device), "_intf_network", device), "_intf_ctrl", device)

RECURSIVE xy_addr0_alloc(_, _)
xy_addr0_alloc(r, i) ==
    IF i > ZipLen(r) THEN r
    ELSE xy_addr0_alloc(IF r.ps.Call.pflow[i] THEN AddrAndIntf(r, r.ps.devices[i]) ELSE r, i + 1)

RECURSIVE xy_addr0_names(_, _)
xy_addr0_names(r, i) ==
    IF i > ZipLen(r) THEN r
    ELSE xy_addr0_names(IF r.ps.Call.pflow[i] THEN dev_varname(r, r.ps.devices[i]) ELSE r, i + 1)

\* faulty variant: the names are assigned before the name table is resized
xy_addr0_names_first(r) == VarName_resize(xy_addr0_names(xy_addr0_alloc(r, 1), 1))

xy_addr0(r) == xy_addr0_names(VarName_resize(xy_addr0_alloc(r, 1)), 1)

\* faulty variant: the test of the power-flow flag is dropped
RECURSIVE xy_addr1_alloc_all(_, _)
xy_addr1_alloc_all(r, i) ==
    IF i > ZipLen(r) THEN r
    ELSE xy_addr1_alloc_all(AddrAndIntf(r, r.ps.devices[i]), i + 1)

RECURSIVE xy_addr1_alloc(_, _)
xy_addr1_alloc(r, i) ==
    IF i > ZipLen(r) THEN r
    ELSE xy_addr1_alloc(IF ~r.ps.Call.pflow[i] THEN AddrAndIntf(r, r.ps.devices[i]) ELSE r, i + 1)

RECURSIVE xy_addr1_names(_, _)
xy_addr1_names(r, i) ==
    IF i > ZipLen(r) THEN r
    ELSE xy_addr1_names(IF ~r.ps.Call.pflow[i] THEN dev_varname(r, r.ps.devices[i]) ELSE r, i + 1)

xy_addr1(r) == xy_addr1_names(VarName_resize(xy_addr1_alloc(r, 1)), 1)

(***************************************************************************)
(* PowerSystem.setup                                                       *)
(***************************************************************************)
\* faulty variant: the DAE arrays are sized before the addresses are assigned
setup_size_first(r) == to_sysbase(xy_addr0(DAE_setup(dev_setup(Call_setup(sort_device(r))))))

setup(r) == to_sysbase(DAE_setup(xy_addr0(dev_setup(Call_setup(sort_device(r))))))

(***************************************************************************)
(* Line.connectivity(Bus): the connected components of the graph whose     *)
(* nodes are the bus positions and whose edges are the lines.  Buses with  *)
(* no line to another bus are the islanded buses; the components with at   *)
(* least one edge are the island sets.                                     *)
(***************************************************************************)
RECURSIVE SetToSeq(_)
SetToSeq(S) ==
    IF S = {} THEN <<>>
    ELSE LET m == CHOOSE x \in S : \A y \in S : x <= y
         IN  <<m>> \o SetToSeq(S \ {m})

Neighbours(p, S) ==
    {p.Bus.uid[p.Line.bus2[k]] : k \in {j \in 1..Len(p.Line.idx) : p.Bus.uid[p.Line.bus1[j]] \in S}}
    \cup {p.Bus.uid[p.Line.bus1[k]] : k \in {j \in 1..Len(p.Line.idx) : p.Bus.uid[p.Line.bus2[j]] \in S}}

RECURSIVE Component(_, _)
Component(p, S) ==
    LET T == S \cup Neighbours(p, S)
    IN  IF T = S THEN S ELSE Component(p, T)

connectivity(r) ==
    LET p == r.ps
        pos == 0..(Len(p.Bus.idx) - 1)
        lone == {b \in pos : Component(p, {b}) = {b}}
        firsts == {b \in pos \ lone : \A c \in Component(p, {b}) : b <= c}
        order == SetToSeq(firsts)
    IN  Invoke([r EXCEPT !.ps.Bus.islanded_buses = SetToSeq(lone),
                         !.ps.Bus.island_sets = [i \in 1..Len(order) |-> Component(p, {order[i]})]],
               "Line.connectivity", "Line")

(***************************************************************************)
(* PowerSystem.check_islands                                               *)
(***************************************************************************)
\* the inner loop: nosw starts at 1 and drops by one per slack bus in the island
RECURSIVE nosw_loop(_, _, _, _)
nosw_loop(p, island, k, nosw) ==
    IF k > Len(p.SW.bus) THEN nosw
    ELSE nosw_loop(p, island, k + 1,
                  IF p.Bus.uid[p.SW.bus[k]] \in island THEN nosw - 1 ELSE nosw)

\* faulty variant: an island counts as multi-slack as soon as nosw is not positive
RECURSIVE island_loop_off_by_one(_, _, _)
island_loop_off_by_one(p, i, acc) ==
    IF i > Len(p.Bus.island_sets) THEN acc
    ELSE LET nosw == nosw_loop(p, p.Bus.island_sets[i], 1, 1) IN
         island_loop_off_by_one(p, i + 1,
                    IF nosw = 1 THEN [acc EXCEPT !.nosw_island = Append(@, i - 1)]
                    ELSE IF nosw <= 0 THEN [acc EXCEPT !.msw_island = Append(@, i - 1)]
                    ELSE acc)

\* the outer loop: acc holds nosw_island and msw_island, island i has index i-1
RECURSIVE island_loop(_, _, _)
island_loop(p, i, acc) ==
    IF i > Len(p.Bus.island_sets) THEN acc
    ELSE LET nosw == nosw_loop(p, p.Bus.island_sets[i], 1, 1) IN
         island_loop(p, i + 1,
                    IF nosw = 1 THEN [acc EXCEPT !.nosw_island = Append(@, i - 1)]
                    ELSE IF nosw < 0 THEN [acc EXCEPT !.msw_island = Append(@, i - 1)]
                    ELSE acc)

ClassifyIslands(p) == island_loop(p, 1, [nosw_island |-> <<>>, msw_island |-> <<>>])

ReportCount(r) ==
    LET b == r.ps.Bus IN
    IF Len(b.islanded_buses) = 0 /\ Len(b.island_sets) = 0
    THEN Emit(r, "info", "System is interconnected.", <<>>)
    ELSE Emit(r, "info", "System contains islands and islanded buses.",
              <<Len(b.island_sets), Len(b.islanded_buses)>>)

\* faulty variant: a multi-slack finding is repaired by dropping the last slack generator
report_slack_repair(r) ==
    LET c == ClassifyIslands(r.ps)
        r1 == IF c.nosw_island # <<>>
              THEN Emit(r, "error", "Slack bus is not defined for island(s).", <<Len(c.nosw_island)>>)
              ELSE r
    IN  IF c.msw_island # <<>>
        THEN [Emit(r1, "error", "Multiple slack buses are defined for island(s).", <<Len(c.nosw_island)>>)
                 EXCEPT !.ps.SW.bus = SubSeq(@, 1, Len(@) - 1)]
        ELSE Emit(r1, "info", "Each island has a slack bus correctly defined.", <<>>)

ReportSlack(r) ==
    LET c == ClassifyIslands(r.ps)
        r1 == IF c.nosw_island # <<>>
              THEN Emit(r, "error", "Slack bus is not defined for island(s).", <<Len(c.nosw_island)>>)
              ELSE r
    IN  IF c.msw_island # <<>>
        THEN Emit(r1, "error", "Multiple slack buses are defined for island(s).", <<Len(c.nosw_island)>>)
        ELSE Emit(r1, "info", "Each island has a slack bus correctly defined.", <<>>)

\* faulty variant: the return after the error is missing
check_islands_no_return(r) ==
    IF "Line" \notin r.ps.models
    THEN ReportSlack(ReportCount(connectivity(Emit(r, "error", "<Line> device not found.", <<>>))))
    ELSE ReportSlack(ReportCount(connectivity(r)))

check_islands(r) ==
    IF "Line" \notin r.ps.models
    THEN Emit(r, "error", "<Line> device not found.", <<>>)
    ELSE ReportSlack(ReportCount(connectivity(r)))

(***************************************************************************)
(* PowerSystem.init_pf                                                     *)
(***************************************************************************)
\* faulty variant: the init0 loop tests the power-flow flag only
RECURSIVE init_pf_loop_pflow_only(_, _)
init_pf_loop_pflow_only(r, i) ==
    IF i > Min(ZipLen(r), Len(r.ps.Call.init0)) THEN r
    ELSE init_pf_loop_pflow_only(IF r.ps.Call.pflow[i]
                   THEN Invoke(r, "init0", r.ps.devices[i]) ELSE r, i + 1)

RECURSIVE init_pf_loop(_, _)
init_pf_loop(r, i) ==
    IF i > Min(ZipLen(r), Len(r.ps.Call.init0)) THEN r
    ELSE init_pf_loop(IF r.ps.Call.pflow[i] /\ r.ps.Call.init0[i]
                   THEN Invoke(r, "init0", r.ps.devices[i]) ELSE r, i + 1)

init_pf(r) == check_islands(init_pf_loop(DAE_init_xy(r), 1))

(***************************************************************************)
(* PowerSystem.td_init                                                     *)
(***************************************************************************)
RECURSIVE td_init_loop(_, _)
td_init_loop(r, i) ==
    IF i > Min(Len(r.ps.devices), Len(r.ps.Call.init1)) THEN r
    ELSE td_init_loop(IF r.ps.Call.init1[i]
                   THEN Invoke(r, "init1", r.ps.devices[i]) ELSE r, i + 1)

\* faulty variant: the DAE arrays are grown before the second allocation pass
td_init_grow_first(r) ==
    td_init_loop(Invoke(Invoke(xy_addr1(DAE_init1(r)), "VarName.resize_for_flows", ""),
                        "VarName.bus_line_names", ""), 1)

td_init(r) ==
    td_init_loop(DAE_init1(Invoke(Invoke(xy_addr1(r), "VarName.resize_for_flows", ""),
                              "VarName.bus_line_names", "")), 1)

(***************************************************************************)
(* PowerSystem.rmgen                                                       *)
(***************************************************************************)
\* the first loop: the devices whose stagen flag is true, in registry order
RECURSIVE stagens_loop(_, _, _)
stagens_loop(p, i, stagens) ==
    IF i > Min(Len(p.devices), Len(p.Call.stagen)) THEN stagens
    ELSE stagens_loop(p, i + 1, IF p.Call.stagen[i] THEN Append(stagens, p.devices[i]) ELSE stagens)

\* faulty variant: every registered device is taken for a static generator
stagens_all(p) == p.devices

stagens_of(p) == stagens_loop(p, 1, <<>>)

\* the inner loop, over the static-generator devices, for one entry gen of idx
RECURSIVE rmgen_devices(_, _, _, _)
rmgen_devices(r, gen, stagens, k) ==
    IF k > Len(stagens) THEN r
    ELSE rmgen_devices(IF gen \in DOMAIN r.ps[stagens[k]].uid
                       THEN disable_gen(r, stagens[k], gen) ELSE r,
                       gen, stagens, k + 1)

\* the outer loop, over the entries of idx
RECURSIVE rmgen_loop(_, _, _, _)
rmgen_loop(r, idx, stagens, g) ==
    IF g > Len(idx) THEN r
    ELSE rmgen_loop(rmgen_devices(r, idx[g], stagens, 1), idx, stagens, g + 1)

rmgen(r, idx) == rmgen_loop(r, idx, stagens_of(r.ps), 1)

(***************************************************************************)
(* The power-flow solver (external): it writes its solution into DAE.x and *)
(* DAE.y and the flows into the Bus and Line tables, and sets SPF.solved   *)
(* when it converged.  Val gives the digits it leaves in each place.       *)
(***************************************************************************)
Val(seed) == ((seed * 37 + 11) % 61) * 5 - 120

SolveOp(r, ok) ==
    LET p == r.ps
        nb == Len(p.Bus.idx)
        nl == Len(p.Line.idx)
    IN  Invoke([r EXCEPT !.ps.solved = ok,
                         !.ps.DAE.x = [i \in 1..Len(p.DAE.x) |-> Val(200 + i)],
                         !.ps.DAE.y = [i \in 1..Len(p.DAE.y) |-> Val(i)],
                         !.ps.Bus.Pg = [k \in 1..nb |-> Val(20 + k)],
                         !.ps.Bus.Qg = [k \in 1..nb |-> Val(40 + k)],
                         !.ps.Bus.Pl = [k \in 1..nb |-> Val(60 + k)],
                         !.ps.Bus.Ql = [k \in 1..nb |-> Val(80 + k)],
                         !.ps.Line.S1 = [k \in 1..nl |-> [real |-> Val(100 + k), imag |-> Val(120 + k)]],
                         !.ps.Line.S2 = [k \in 1..nl |-> [real |-> Val(140 + k), imag |-> Val(160 + k)]]],
               "SPF.run", "")

(***************************************************************************)
(* The result extractors.                                                  *)
(***************************************************************************)
RECURSIVE Pow10(_)
Pow10(k) == IF k <= 0 THEN 1 ELSE 10 * Pow10(k - 1)

\* round(v, dec): the nearest multiple of 10^-dec, a tie going to the even one
Round(v, dec) ==
    LET q == Pow10(FracDigits - dec)
        a == IF v < 0 THEN -v ELSE v
        lo == (a \div q) * q
        rem == a - lo
        up == (2 * rem > q) \/ (2 * rem = q /\ (a \div q) % 2 = 1)
        m == IF up THEN lo + q ELSE lo
    IN  IF v < 0 THEN -m ELSE m

RECURSIVE MinLen(_)
MinLen(cols) ==
    IF Len(cols) = 1 THEN Len(cols[1]) ELSE Min(Len(cols[1]), MinLen(Tail(cols)))

\* zip(c1, c2, ...): the rows of the columns, as many as the shortest column has
Zip(cols) == [k \in 1..MinLen(cols) |-> [j \in 1..Len(cols) |-> cols[j][k]]]

\* the place of row in the sorted list: after every row whose key is not larger
RECURSIVE InsertRow(_, _)
InsertRow(row, rows) ==
    IF rows = <<>> THEN <<row>>
    ELSE IF row[1] < rows[1][1] THEN <<row>> \o rows
    ELSE <<rows[1]>> \o InsertRow(row, Tail(rows))

\* faulty variant: the rows are sorted in descending order (reverse=True)
RECURSIVE sorted_reverse(_)
sorted_reverse(rows) ==
    IF rows = <<>> THEN <<>>
    ELSE LET rest == sorted_reverse(SubSeq(rows, 1, Len(rows) - 1))
             row == rows[Len(rows)]
             before == SelectSeq(rest, LAMBDA x : x[1] >= row[1])
             after == SelectSeq(rest, LAMBDA x : x[1] < row[1])
         IN  before \o <<row>> \o after

\* sorted(rows, key=itemgetter(0)): a stable sort on the first field
RECURSIVE sorted_rows(_)
sorted_rows(rows) ==
    IF rows = <<>> THEN <<>>
    ELSE InsertRow(rows[Len(rows)], sorted_rows(SubSeq(rows, 1, Len(rows) - 1)))

\* (list(x) for x in zip(*rows)): one list per field, none when there is no row
Unzip(rows) ==
    IF rows = <<>> THEN <<>>
    ELSE [j \in 1..Len(rows[1]) |-> [k \in 1..Len(rows) |-> rows[k][j]]]

\* tuple([False] * 7)
Unsolved == [i \in 1..7 |-> FALSE]

Read(r, what) == Invoke(r, "read", what)

get_busdata(r, dec) ==
    IF ~r.ps.solved
    THEN [Emit(r, "error", "Power flow not solved when getting bus data.", <<>>) EXCEPT !.ret = Tuple(Unsolved)]
    ELSE LET p == r.ps
             b == p.Bus
             y == p.DAE.y
             n == p.n["Bus"]
             Vm == [k \in 1..Len(b.v) |-> Round(y[b.v[k] + 1], dec)]
             Va == IF p.usedegree
                   THEN [k \in 1..Len(b.a) |-> Round(y[b.a[k] + 1] * rad2deg, dec)]
                   ELSE [k \in 1..Len(b.a) |-> Round(y[b.a[k] + 1], dec)]
             Pg == [k \in 1..n |-> Round(b.Pg[k], dec)]
             Qg == [k \in 1..n |-> Round(b.Qg[k], dec)]
             Pl == [k \in 1..n |-> Round(b.Pl[k], dec)]
             Ql == [k \in 1..n |-> Round(b.Ql[k], dec)]
         IN  [Read(Read(r, "Bus"), "DAE") EXCEPT
                 !.ret = Lists(Unzip(sorted_rows(Zip(<<b.idx, b.name, Vm, Va, Pg, Qg, Pl, Ql>>))))]

get_nodedata(r, dec) ==
    IF r.ps.n["Node"] = 0
    THEN r
    ELSE IF ~r.ps.solved
    THEN [Emit(r, "error", "Power flow not solved when getting bus data.", <<>>) EXCEPT !.ret = Tuple(Unsolved)]
    ELSE LET p == r.ps
             nd == p.Node
             V == [k \in 1..Len(nd.v) |-> Round(p.DAE.y[nd.v[k] + 1], dec)]
         IN  [Read(Read(r, "Node"), "DAE") EXCEPT
                 !.ret = Lists(Unzip(sorted_rows(Zip(<<nd.idx, nd.name, V>>))))]

get_linedata(r, dec) ==
    IF ~r.ps.solved
    THEN [Emit(r, "error", "Power flow not solved when getting line data.", <<>>) EXCEPT !.ret = Tuple(Unsolved)]
    ELSE LET p == r.ps
             ln == p.Line
             n == p.n["Line"]
             Pfr == [k \in 1..n |-> Round(ln.S1[k].real, dec)]
             Qfr == [k \in 1..n |-> Round(ln.S1[k].imag, dec)]
             Pto == [k \in 1..n |-> Round(ln.S2[k].real, dec)]
             Qto == [k \in 1..n |-> Round(ln.S2[k].imag, dec)]
             Ploss == [k \in 1..n |-> Pfr[k] + Pto[k]]
             Qloss == [k \in 1..n |-> Qfr[k] + Qto[k]]
         IN  [Read(r, "Line") EXCEPT
                 !.ret = Lists(Unzip(sorted_rows(Zip(<<ln.idx, ln.bus1, ln.bus2, Pfr, Qfr, Pto, Qto, Ploss, Qloss>>))))]

(***************************************************************************)
(* The cases a run starts from.                                            *)
(***************************************************************************)
\* the import failures considered: none, or the Line model
ImportFailures == {{}, {"Line"}}

\* k external indices, none at its own position: 2, 3, ..., k, 1
Rot(k) == [i \in 1..k |-> (i % k) + 1]

\* lines 1..nl joining consecutive buses of bus, and their ends
RingEnds(bus, nl) ==
    [k \in 1..nl |-> <<bus[((k - 1) % Len(bus)) + 1], bus[(k % Len(bus)) + 1]>>]

\* the capability flags of a model that takes part in the power flow or not
FlagsOf(d, pflow) ==
    [pflow |-> pflow,
     init0 |-> d \in {"Bus", "SW"},
     init1 |-> d \in {"SW", "Node"},
     stagen |-> d = "SW"]

\* pipeline cases: every instance count up to MaxN and every power-flow flag;
\* a line or a slack generator needs a bus, and a line needs the Line model
PipelineCase(f, b, pf, nb, nn, nlines, ns) ==
    LET nl == IF "Line" \in f THEN 0 ELSE nlines IN
    [failed |-> f, base |-> b, usedegree |-> FALSE,
     flags |-> [d \in Names |-> FlagsOf(d, pf[d])],
     bus |-> Rot(nb),
     node |-> [k \in 1..nn |-> nn - k + 1],
     lineidx |-> [k \in 1..nl |-> k],
     lineends |-> RingEnds(Rot(nb), nl),
     sw |-> [k \in 1..ns |-> Rot(nb)[((k - 1) % nb) + 1]]]

PipelineCases ==
    {PipelineCase(f, b, pf, c[1], c[2], c[3], c[4]) :
        f \in ImportFailures, b \in BOOLEAN, pf \in [Names -> BOOLEAN],
        c \in {t \in (0..MaxN) \X (0..MaxN) \X (0..MaxN) \X (0..MaxN) :
                 /\ (t[3] > 0) => (t[1] > 0)
                 /\ (t[4] > 0) => (t[1] > 0)}}

\* network cases: NBus buses, every set of up to MaxLines lines between two of
\* them and every list of up to MaxSW slack generators
BusPairs == {e \in (1..NBus) \X (1..NBus) : e[1] < e[2]}

PairCode(e) == e[1] * (NBus + 1) + e[2]

EdgeList(E) ==
    LET codes == SetToSeq({PairCode(e) : e \in E})
    IN  [k \in 1..Len(codes) |-> CHOOSE e \in E : PairCode(e) = codes[k]]

NetworkCase(f, E, sw) ==
    [failed |-> f, base |-> TRUE, usedegree |-> FALSE,
     flags |-> [d \in Names |-> FlagsOf(d, TRUE)],
     bus |-> Rot(NBus),
     node |-> <<>>,
     lineidx |-> [k \in 1..Cardinality(E) |-> k],
     lineends |-> EdgeList(E),
     sw |-> sw]

NetworkCases ==
    {NetworkCase({}, E, sw) :
        E \in {X \in SUBSET BusPairs : Cardinality(X) <= MaxLines},
        sw \in UNION {[1..k -> 1..NBus] : k \in 0..MaxSW}}
    \cup {NetworkCase({"Line"}, {}, sw) : sw \in UNION {[1..k -> 1..NBus] : k \in 0..MaxSW}}

\* result cases: every list of up to MaxRows distinct external indices, given
\* to the Bus, Node and Line tables alike
IdxLists ==
    {s \in UNION {[1..k -> 1..(MaxRows + 1)] : k \in 0..MaxRows} :
        \A i, j \in 1..Len(s) : i # j => s[i] # s[j]}

ResultCases ==
    {[failed |-> {}, base |-> TRUE, usedegree |-> ud,
      flags |-> [d \in Names |-> FlagsOf(d, TRUE)],
      bus |-> L,
      node |-> L,
      lineidx |-> L,
      lineends |-> RingEnds(L, Len(L)),
      sw |-> IF L = <<>> THEN <<>> ELSE <<L[1]>>] :
        ud \in BOOLEAN, L \in IdxLists}

\* registry cases: every set of non-JIT models whose import fails; a model
\* that was not instantiated is given no instance by the data loader
RegistryCases ==
    {PipelineCase(f, b, [d \in Names |-> TRUE],
                  IF "Bus" \in f THEN 0 ELSE c[1],
                  IF "Node" \in f THEN 0 ELSE c[2],
                  IF "Bus" \in f THEN 0 ELSE c[3],
                  IF "SW" \in f \/ "Bus" \in f THEN 0 ELSE c[4]) :
        f \in SUBSET Names, b \in BOOLEAN,
        c \in {t \in (0..MaxN) \X (0..MaxN) \X (0..MaxN) \X (0..MaxN) :
                 /\ (t[3] > 0) => (t[1] > 0)
                 /\ (t[4] > 0) => (t[1] > 0)}}

\* generator cases: every instance count up to MaxGen and every choice of the
\* models that carry the static-generator flag
GenCases ==
    {[PipelineCase({}, TRUE, [d \in Names |-> TRUE], c[1], c[2], c[3], c[4])
         EXCEPT !.flags = [d \in Names |-> [FlagsOf(d, TRUE) EXCEPT !.stagen = sg[d]]]] :
        sg \in [Names -> BOOLEAN],
        c \in {t \in (0..MaxGen) \X (0..MaxGen) \X (0..MaxGen) \X (0..MaxGen) :
                 /\ (t[3] > 0) => (t[1] > 0)
                 /\ (t[4] > 0) => (t[1] > 0)}}

\* the generator indices a caller may name: those of the tables and one more
GenIds == 1..(MaxGen + 1)

\* the lists given to rmgen: up to MaxIdx indices, repeats included
IdxArgs == UNION {[1..k -> GenIds] : k \in 0..MaxIdx}

\* the decimal precisions the extractors are called with
Decs == {0, 1}

(***************************************************************************)
(* The actions: one per method called by the driver.  pc follows the       *)
(* driver's order: init (before __init__), new, setup, pf (power flow      *)
(* initialised), solved, td; rmgen once the static generators are removed. *)
(***************************************************************************)
Commit(r, op, arg, newpc) ==
    /\ ps' = r.ps
    /\ trace' = r.trace
    /\ log' = r.log
    /\ ret' = r.ret
    /\ last' = [op |-> op, arg |-> arg]
    /\ pc' = newpc

Start(cfg) ==
    /\ ps = NewSystem(cfg)
    /\ trace = <<>>
    /\ log = inst_models(cfg.failed).log
    /\ ret = None
    /\ last = [op |-> "__init__", arg |-> 0]
    /\ pc = "new"

\* the state a run from cfg is in after setup() and init_pf()
StartSolving(cfg) ==
    LET r == init_pf(Enter(setup(Enter(NewSystem(cfg))).ps)) IN
    /\ ps = r.ps
    /\ trace = r.trace
    /\ log = r.log
    /\ ret = r.ret
    /\ last = [op |-> "init_pf", arg |-> 0]
    /\ pc = "pf"

Setup ==
    /\ pc = "new"
    /\ Commit(setup(Enter(ps)), "setup", 0, "setup")

ToSysbaseCall ==
    /\ \A d \in Names : ps.nconv[d] <= MaxConv
    /\ Commit(to_sysbase(Enter(ps)), "to_sysbase", 0, pc)

InitPf ==
    /\ pc = "setup"
    /\ Commit(init_pf(Enter(ps)), "init_pf", 0, "pf")

CheckIslands ==
    /\ pc \in {"setup", "pf"}
    /\ Commit(check_islands(Enter(ps)), "check_islands", 0, pc)

Solve ==
    /\ pc = "pf"
    /\ \E ok \in BOOLEAN : Commit(SolveOp(Enter(ps), ok), "SPF.run", 0, "solved")

TdInit ==
    /\ pc = "solved"
    /\ Commit(td_init(Enter(ps)), "td_init", 0, "td")

GetBusdata ==
    \E dec \in Decs : Commit(get_busdata(Enter(ps), dec), "get_busdata", dec, pc)

GetNodedata ==
    \E dec \in Decs : Commit(get_nodedata(Enter(ps), dec), "get_nodedata", dec, pc)

GetLinedata ==
    \E dec \in Decs : Commit(get_linedata(Enter(ps), dec), "get_linedata", dec, pc)

(***************************************************************************)
(* Spec: the set-up pipeline on every pipeline case.                       *)
(***************************************************************************)
Init == \E cfg \in PipelineCases : Start(cfg)

Next == Setup \/ ToSysbaseCall \/ InitPf \/ Solve \/ TdInit

Spec == Init /\ [][Next]_vars

(***************************************************************************)
(* SpecIslands: set-up and the island check on every network case.         *)
(***************************************************************************)
InitIslands == \E cfg \in NetworkCases : Start(cfg)

NextIslands == Setup \/ InitPf \/ CheckIslands

SpecIslands == InitIslands /\ [][NextIslands]_vars

(***************************************************************************)
(* SpecResults: the solver and the extractors on every result case, from   *)
(* the state after setup() and init_pf().                                  *)
(***************************************************************************)
InitResults == \E cfg \in ResultCases : StartSolving(cfg)

NextResults == Solve \/ GetBusdata \/ GetNodedata \/ GetLinedata

SpecResults == InitResults /\ [][NextResults]_vars

(***************************************************************************)
(* SpecRegistry: the construction of the object on every registry case,    *)
(* and its set-up.  Before __init__ has run there is no model and no       *)
(* registered device.                                                      *)
(***************************************************************************)
Unbuilt ==
    [NewSystem(PipelineCase({}, TRUE, [d \in Names |-> TRUE], 0, 0, 0, 0))
        EXCEPT !.devices = <<>>, !.models = {}]

\* __init__ (inst_models) and the loading of the case data; last.arg keeps the
\* set of models whose import failed
Construct ==
    /\ pc = "init"
    /\ \E cfg \in RegistryCases :
          Commit([ps |-> NewSystem(cfg), trace |-> <<>>,
                  log |-> inst_models(cfg.failed).log, ret |-> None],
                 "inst_models", cfg.failed, "new")

InitRegistry ==
    /\ ps = Unbuilt
    /\ trace = <<>>
    /\ log = <<>>
    /\ ret = None
    /\ last = [op |-> "", arg |-> {}]
    /\ pc = "init"

NextRegistry == Construct \/ Setup

SpecRegistry == InitRegistry /\ [][NextRegistry]_vars

(***************************************************************************)
(* SpecRmgen: set-up and the removal of static generators on every         *)
(* generator case.  The driver calls rmgen once, with the static           *)
(* generators that the dynamic ones of the case replace (pc becomes rmgen).*)
(***************************************************************************)
Rmgen ==
    /\ pc = "setup"
    /\ \E idx \in IdxArgs : Commit(rmgen(Enter(ps), idx), "rmgen", idx, "rmgen")

InitRmgen == \E cfg \in GenCases : Start(cfg)

NextRmgen == Setup \/ Rmgen

SpecRmgen == InitRmgen /\ [][NextRmgen]_vars

(***************************************************************************)
(* What the claims speak of.                                               *)
(***************************************************************************)
Registered == Range(ps.devices)

\* the devices the allocation loops of p meet with a true / a false power-flow flag
PflowOf(p) == {p.devices[i] : i \in {j \in 1..ZipLen([ps |-> p]) : p.Call.pflow[j]}}

PostflowOf(p) == {p.devices[i] : i \in {j \in 1..ZipLen([ps |-> p]) : ~p.Call.pflow[j]}}

PflowDevs == PflowOf(ps)

PostflowDevs == PostflowOf(ps)

XSlots(p, d) == {p.addr[d].x0 + i : i \in 0..(p.addr[d].xn - 1)}

YSlots(p, d) == {p.addr[d].y0 + i : i \in 0..(p.addr[d].yn - 1)}

\* the ranges of the devices D are pairwise disjoint and cover x and y exactly
Tiles(p, D) ==
    /\ \A d \in D : p.addr[d].set
    /\ \A d, e \in D : d # e =>
          /\ XSlots(p, d) \cap XSlots(p, e) = {}
          /\ YSlots(p, d) \cap YSlots(p, e) = {}
    /\ UNION {XSlots(p, d) : d \in D} = 0..(Len(p.DAE.x) - 1)
    /\ UNION {YSlots(p, d) : d \in D} = 0..(Len(p.DAE.y) - 1)

\* the places of the calls of one method in a trace, and the calls made on a device
Places(t, call) == {i \in 1..Len(t) : t[i].call = call}

CallsOn(t, call, d) == Cardinality({i \in Places(t, call) : t[i].dev = d})

\* ------------------------------------------------------------------ C1
\* C1: after setup() the ranges that xy_addr0 gave to the power-flow devices
\* are pairwise disjoint and cover [0, len(x)) and [0, len(y)) exactly, and
\* a device whose power-flow flag is false holds no range yet.
C1_PreflowTiling ==
    pc \in {"setup", "pf", "solved"} =>
        /\ Tiles(ps, PflowDevs)
        /\ \A d \in Names \ PflowDevs : ~ps.addr[d].set
        /\ PflowDevs \cup PostflowDevs = Registered

\* C1 witness: two power-flow devices hold slots, a third has no instance and
\* an empty range, and a fourth is left for the second pass.
C1_Witness ==
    /\ pc = "setup"
    /\ \E d, e, z \in PflowDevs :
          /\ d # e
          /\ ps.addr[d].yn > 0 /\ ps.addr[e].yn > 0 /\ ps.addr[e].xn > 0
          /\ ps.n[z] = 0 /\ ps.addr[z].set
    /\ PostflowDevs # {}

\* ------------------------------------------------------------------ C2
\* C2: td_init (through xy_addr1) gives slots to exactly the devices whose
\* power-flow flag is false, each by one call of _addr, and leaves the range
\* of every device of the first pass as it was; setup() had called _addr once
\* on each power-flow device and on no other; after td_init the ranges of
\* all registered devices tile the grown arrays.
C2_PostflowAllocation ==
    [][/\ (pc = "new" /\ pc' = "setup") =>
             /\ \A d \in PflowOf(ps') : CallsOn(trace', "_addr", d) = 1
             /\ \A d \in Names \ PflowOf(ps') : CallsOn(trace', "_addr", d) = 0
       /\ (pc = "solved" /\ pc' = "td") =>
             /\ \A d \in PflowDevs :
                   ps'.addr[d] = ps.addr[d] /\ CallsOn(trace', "_addr", d) = 0
             /\ \A d \in PostflowDevs :
                   ~ps.addr[d].set /\ ps'.addr[d].set /\ CallsOn(trace', "_addr", d) = 1
             /\ PflowDevs \cup PostflowDevs = Range(ps'.devices)
             /\ Tiles(ps', Range(ps'.devices))]_vars

\* C2 witness: after td_init a device of each pass holds slots.
C2_Witness ==
    /\ pc = "td"
    /\ \E d \in PflowDevs : ps.addr[d].yn > 0
    /\ \E d \in PostflowDevs : ps.addr[d].xn > 0 /\ ps.addr[d].x0 > 0

\* ------------------------------------------------------------------ C3
\* C3: in setup() no device is given addresses (_addr) and the DAE arrays are
\* not sized (DAE.setup) before every param_to_sysbase call has been made.
C3_ConversionBeforeIndexing ==
    last.op = "setup" =>
        \A i \in Places(trace, "param_to_sysbase") :
            \A j \in Places(trace, "_addr") \cup Places(trace, "DAE.setup") : i < j

\* ------------------------------------------------------------------ C4
\* C4: with the base setting off no device is ever converted; with it on,
\* over any sequence of calls, no device is converted twice and every
\* registered device has been converted once setup() has run.
C4_ConvertedExactlyOnce ==
    IF ~ps.base
    THEN \A d \in Names : ps.nconv[d] = 0
    ELSE \A d \in Registered :
            /\ ps.nconv[d] <= 1
            /\ (pc # "new") => ps.nconv[d] = 1

\* ------------------------------------------------------------------ C5
\* the number of slack generators whose bus lies in island i of the partition
SlackCount(p, i) ==
    Cardinality({k \in 1..Len(p.SW.bus) : p.Bus.uid[p.SW.bus[k]] \in p.Bus.island_sets[i]})

IslandsWith(p, Test(_)) == {i \in 1..Len(p.Bus.island_sets) : Test(SlackCount(p, i))}

\* the log messages with a given text
Logged(text) == {i \in 1..Len(log) : log[i].text = text}

NoSlackText == "Slack bus is not defined for island(s)."

MultiSlackText == "Multiple slack buses are defined for island(s)."

\* check_islands has just run its analysis (on its own or at the end of init_pf)
IslandsChecked == last.op \in {"check_islands", "init_pf"} /\ "Line" \in ps.models

\* C5: check_islands classifies an island as no-slack exactly when no slack
\* generator lies in it and as multi-slack exactly when more than one does;
\* the no-slack diagnostic is logged once, with the number of no-slack
\* islands, exactly when there is one, and no slack error is logged when
\* every island holds exactly one slack generator.
C5_IslandClassification ==
    IslandsChecked =>
        LET c == ClassifyIslands(ps)
            none == IslandsWith(ps, LAMBDA k : k = 0)
            many == IslandsWith(ps, LAMBDA k : k > 1)
        IN  /\ Range(c.nosw_island) = {i - 1 : i \in none}
            /\ Range(c.msw_island) = {i - 1 : i \in many}
            /\ Len(c.nosw_island) = Cardinality(none)
            /\ Len(c.msw_island) = Cardinality(many)
            /\ Cardinality(Logged(NoSlackText)) = (IF none = {} THEN 0 ELSE 1)
            /\ \A i \in Logged(NoSlackText) : log[i].args = <<Cardinality(none)>>
            /\ Cardinality(Logged(MultiSlackText)) = (IF many = {} THEN 0 ELSE 1)

\* C5 witness: two islands, one with a slack generator and one without; the
\* no-slack diagnostic reports one island and there is no multi-slack one.
C5_Witness ==
    /\ last.op = "check_islands"
    /\ Len(ps.Bus.island_sets) = 2
    /\ \E i, j \in 1..2 : SlackCount(ps, i) = 0 /\ SlackCount(ps, j) = 1
    /\ \E i \in Logged(NoSlackText) : log[i].args = <<1>>
    /\ Logged(MultiSlackText) = {}

\* ------------------------------------------------------------------ C6
\* C6: when some island holds more than one slack generator, check_islands
\* logs one multi-slack diagnostic whose count is the number of such islands.
C6_MultiSlackCount ==
    (IslandsChecked /\ IslandsWith(ps, LAMBDA k : k > 1) # {}) =>
        /\ Cardinality(Logged(MultiSlackText)) = 1
        /\ \A i \in Logged(MultiSlackText) :
              log[i].args = <<Cardinality(IslandsWith(ps, LAMBDA k : k > 1))>>

\* ------------------------------------------------------------------ C9
LineNotFound == Msg("error", "<Line> device not found.", <<>>)

\* C9: without the Line model, check_islands logs one error, runs no
\* connectivity analysis, logs no island count and no slack diagnostic,
\* changes nothing and returns; init_pf then completes, having changed only
\* what DAE.init_xy resets.
C9_LineAbsent ==
    [][("Line" \notin ps.models) =>
          /\ (last'.op = "check_islands") =>
                /\ log' = <<LineNotFound>>
                /\ trace' = <<>>
                /\ ret' = None
                /\ ps' = ps
                /\ pc' = pc
          /\ (last'.op = "init_pf") =>
                /\ log' = <<LineNotFound>>
                /\ Places(trace', "Line.connectivity") = {}
                /\ ret' = None
                /\ ps' = [ps EXCEPT !.DAE = ps'.DAE]
                /\ pc' = "pf"]_vars

\* C9 witness: init_pf has completed on a system without the Line model.
C9_Witness ==
    /\ "Line" \notin ps.models
    /\ last.op = "init_pf"
    /\ pc = "pf"
    /\ log = <<LineNotFound>>
    /\ Places(trace, "init0") # {}

\* ------------------------------------------------------------------ C10
\* C10: check_islands returns normally on every network and slack
\* configuration and changes nothing of the system but the island partition
\* kept on Bus: device tables, uid maps, flags, registry and DAE stay as
\* they were.
C10_CheckIslandsReadOnly ==
    [][(last'.op = "check_islands") =>
          /\ ret' = None
          /\ pc' = pc
          /\ ps' = [ps EXCEPT !.Bus.island_sets = ps'.Bus.island_sets,
                              !.Bus.islanded_buses = ps'.Bus.islanded_buses]]_vars

\* C10 witness: check_islands has returned from a network with a no-slack
\* island and a multi-slack island.
C10_Witness ==
    /\ last.op = "check_islands"
    /\ ret = None
    /\ IslandsWith(ps, LAMBDA k : k = 0) # {}
    /\ IslandsWith(ps, LAMBDA k : k > 1) # {}

\* ------------------------------------------------------------------ C7
Extractors == {"get_busdata", "get_nodedata", "get_linedata"}

\* C7: with the power flow not solved, each extractor logs one error and
\* returns the tuple of False values, reading no DAE value and no device
\* result, whatever the device tables hold.
C7_UnsolvedSentinel ==
    (last.op \in Extractors /\ ~ps.solved) =>
        /\ ret = Tuple(Unsolved)
        /\ Len(log) = 1 /\ log[1].level = "error"
        /\ Places(trace, "read") = {}

\* ------------------------------------------------------------------ C8
\* row k of each table as the extractor reports it with precision dec
BusRow(p, k, dec) ==
    <<p.Bus.idx[k], p.Bus.name[k],
      Round(p.DAE.y[p.Bus.v[k] + 1], dec),
      IF p.usedegree THEN Round(p.DAE.y[p.Bus.a[k] + 1] * rad2deg, dec)
                     ELSE Round(p.DAE.y[p.Bus.a[k] + 1], dec),
      Round(p.Bus.Pg[k], dec), Round(p.Bus.Qg[k], dec),
      Round(p.Bus.Pl[k], dec), Round(p.Bus.Ql[k], dec)>>

NodeRow(p, k, dec) ==
    <<p.Node.idx[k], p.Node.name[k], Round(p.DAE.y[p.Node.v[k] + 1], dec)>>

LineRow(p, k, dec) ==
    <<p.Line.idx[k], p.Line.bus1[k], p.Line.bus2[k],
      Round(p.Line.S1[k].real, dec), Round(p.Line.S1[k].imag, dec),
      Round(p.Line.S2[k].real, dec), Round(p.Line.S2[k].imag, dec),
      Round(p.Line.S1[k].real, dec) + Round(p.Line.S2[k].real, dec),
      Round(p.Line.S1[k].imag, dec) + Round(p.Line.S2[k].imag, dec)>>

\* res holds one list per field, each with n entries; the indices ascend and
\* position k of every list is the field of one and the same table row
SortedAligned(res, n, Row(_)) ==
    /\ res.kind = "lists"
    /\ Len(res.val) = Len(Row(1))
    /\ \A j \in 1..Len(res.val) : Len(res.val[j]) = n
    /\ \A k \in 1..(n - 1) : res.val[1][k] < res.val[1][k + 1]
    /\ \A k \in 1..n : \E q \in 1..n : \A j \in 1..Len(res.val) : res.val[j][k] = Row(q)[j]

\* C8: after a solve each extractor returns one list per field, the external
\* indices ascending and every field permuted like the index field; a table
\* without rows yields no list, and get_nodedata returns None for it.
C8_SortedAligned ==
    ps.solved =>
        /\ (last.op = "get_busdata") =>
              IF ps.n["Bus"] = 0 THEN ret = Lists(<<>>)
              ELSE SortedAligned(ret, ps.n["Bus"], LAMBDA k : BusRow(ps, k, last.arg))
        /\ (last.op = "get_nodedata") =>
              IF ps.n["Node"] = 0 THEN ret = None
              ELSE SortedAligned(ret, ps.n["Node"], LAMBDA k : NodeRow(ps, k, last.arg))
        /\ (last.op = "get_linedata") =>
              IF ps.n["Line"] = 0 THEN ret = Lists(<<>>)
              ELSE SortedAligned(ret, ps.n["Line"], LAMBDA k : LineRow(ps, k, last.arg))

\* C8 witness: bus rows loaded with the indices 3, 1, 2 came back as 1, 2, 3,
\* the names in the matching order.
C8_Witness ==
    /\ ps.solved
    /\ last.op = "get_busdata"
    /\ ps.Bus.idx = <<3, 1, 2>>
    /\ ret.kind = "lists"
    /\ ret.val[1] = <<1, 2, 3>>
    /\ ret.val[2] = <<ps.Bus.name[2], ps.Bus.name[3], ps.Bus.name[1]>>

\* ------------------------------------------------------------------ C11
\* the places of a device name in the registry
RegistryPlaces(p, name) == {i \in 1..Len(p.devices) : p.devices[i] = name}

\* the errors inst_models logged for a model
ImportErrors(name) ==
    {i \in 1..Len(log) : log[i] = Msg("error", "Error adding non-JIT model", <<name>>)}

\* C11: after inst_models, a non-JIT model whose import failed has one error
\* logged, is no attribute and is not registered; every other non-JIT model
\* is an attribute, registered exactly once, in the order of non_jits, with
\* no error logged; a JIT model is an attribute and is not registered.
C11_FailedImportSkipped ==
    (last.op = "inst_models") =>
        LET failed == last.arg IN
        /\ \A name \in failed :
              /\ Cardinality(ImportErrors(name)) = 1
              /\ name \notin ps.models
              /\ RegistryPlaces(ps, name) = {}
        /\ \A name \in Names \ failed :
              /\ ImportErrors(name) = {}
              /\ name \in ps.models
              /\ Cardinality(RegistryPlaces(ps, name)) = 1
        /\ Len(log) = Cardinality(failed)
        /\ ps.devices = SelectSeq(non_jits, LAMBDA name : name \notin failed)
        /\ \A name \in Range(jits) : name \in ps.models /\ RegistryPlaces(ps, name) = {}

\* C11 witness: the import of one model in the middle of non_jits failed and
\* the models before and after it are registered.
C11_Witness ==
    /\ last.op = "inst_models"
    /\ last.arg = {"SW"}
    /\ ps.devices = <<"Bus", "Line", "Node">>
    /\ Len(log) = 1

\* ------------------------------------------------------------------ C12
CorrectText == "Each island has a slack bus correctly defined."

\* C12: check_islands logs 'Each island has a slack bus correctly defined'
\* only when every island holds exactly one slack generator, and never
\* together with a no-slack or a multi-slack diagnostic.
C12_CorrectOnlyWhenAllSingle ==
    (IslandsChecked /\ Logged(CorrectText) # {}) =>
        /\ \A i \in 1..Len(ps.Bus.island_sets) : SlackCount(ps, i) = 1
        /\ Logged(NoSlackText) = {}
        /\ Logged(MultiSlackText) = {}

\* ------------------------------------------------------------------ C13
\* C13: in the allocation pass of setup() (xy_addr0) every _addr call comes
\* before the first _intf_network and the first _intf_ctrl call.
C13_InterfacesAfterAllocation ==
    (last.op = "setup") =>
        \A i \in Places(trace, "_intf_network") \cup Places(trace, "_intf_ctrl") :
            \A j \in Places(trace, "_addr") : j < i

\* ------------------------------------------------------------------ C14
\* the devices a method was called on in a trace
DevsOf(t, call) == {t[i].dev : i \in Places(t, call)}

\* in the trace t of one allocation pass: one resize, after every _addr and
\* interface call and before every _varname call; _varname once on each
\* device that _addr was called on, and on no other
NamesLast(t) ==
    /\ Cardinality(Places(t, "VarName.resize")) = 1
    /\ \A k \in Places(t, "VarName.resize") :
          /\ \A j \in Places(t, "_addr") \cup Places(t, "_intf_network") \cup Places(t, "_intf_ctrl") : j < k
          /\ \A i \in Places(t, "_varname") : k < i
    /\ DevsOf(t, "_varname") = DevsOf(t, "_addr")
    /\ \A d \in DevsOf(t, "_addr") : CallsOn(t, "_varname", d) = 1 /\ CallsOn(t, "_addr", d) = 1

\* C14: in setup() (xy_addr0) and in td_init() (xy_addr1) the name table is
\* resized once, after the pass's allocations, and _varname runs after it on
\* exactly the devices of the pass (power-flow flag true in the first pass,
\* false in the second); the named slots are the allocated slots and lie
\* within the name table, which has the length of the DAE arrays.
C14_NamesAssignedLast ==
    /\ (last.op = "setup") => NamesLast(trace) /\ DevsOf(trace, "_addr") = PflowDevs
    /\ (last.op = "td_init") => NamesLast(trace) /\ DevsOf(trace, "_addr") = PostflowDevs
    /\ (last.op \in {"setup", "td_init"}) =>
          /\ ps.VarName.nx = Len(ps.DAE.x) /\ ps.VarName.ny = Len(ps.DAE.y)
          /\ ps.VarName.unamex \subseteq 0..(ps.VarName.nx - 1)
          /\ ps.VarName.unamey \subseteq 0..(ps.VarName.ny - 1)
          /\ ps.VarName.unamex = UNION {XSlots(ps, d) : d \in {e \in Names : ps.addr[e].set}}
          /\ ps.VarName.unamey = UNION {YSlots(ps, d) : d \in {e \in Names : ps.addr[e].set}}

\* C14 witness: td_init has named the slots of a device of the second pass,
\* which lie behind the slots named in the first pass.
C14_Witness ==
    /\ last.op = "td_init"
    /\ \E d \in PostflowDevs :
          /\ CallsOn(trace, "_varname", d) = 1
          /\ ps.addr[d].yn > 0 /\ ps.addr[d].y0 > 0
          /\ YSlots(ps, d) \subseteq ps.VarName.unamey
    /\ \E e \in PflowDevs : ps.addr[e].yn > 0

\* ------------------------------------------------------------------ C15
\* the calls of one method in a trace, in their order
CallsOf(t, call) == SelectSeq(t, LAMBDA e : e.call = call)

\* the registered devices with both flags true, in registry order, as init0 calls
Init0Due(p) ==
    LET due == SelectSeq(p.devices, LAMBDA d : p.flags[d].pflow /\ p.flags[d].init0)
    IN  [i \in 1..Len(due) |-> Ev("init0", due[i])]

\* C15: init_pf calls DAE.init_xy first and once, then init0 on exactly the
\* registered devices whose pflow and init0 flags are both true, once each in
\* registry order, and the connectivity analysis of check_islands comes
\* after the last init0; check_islands has logged its findings.
C15_InitPfOrder ==
    (last.op = "init_pf") =>
        /\ Len(trace) >= 1 /\ trace[1] = Ev("DAE.init_xy", "")
        /\ Places(trace, "DAE.init_xy") = {1}
        /\ CallsOf(trace, "init0") = Init0Due(ps)
        /\ \A j \in Places(trace, "Line.connectivity") :
              \A i \in Places(trace, "init0") \cup Places(trace, "DAE.init_xy") : i < j
        /\ ("Line" \in ps.models) => Cardinality(Places(trace, "Line.connectivity")) = 1
        /\ log # <<>>

\* C15 witness: two devices were initialised in registry order, a power-flow
\* device without init0 and an init0 device outside the power flow were
\* not, and the connectivity check ran at the end.
C15_Witness ==
    /\ last.op = "init_pf"
    /\ CallsOf(trace, "init0") = <<Ev("init0", "Bus"), Ev("init0", "SW")>>
    /\ "Line" \in Registered /\ ps.flags["Line"].pflow /\ ~ps.flags["Line"].init0
    /\ trace[Len(trace)] = Ev("Line.connectivity", "Line")

\* ------------------------------------------------------------------ C16
\* the registered devices whose init1 flag is true, in registry order, as init1 calls
Init1Due(p) ==
    LET due == SelectSeq(p.devices, LAMBDA d : p.flags[d].init1)
    IN  [i \in 1..Len(due) |-> Ev("init1", due[i])]

\* the calls xy_addr1 makes
Addr1Calls == {"_addr", "_intf_network", "_intf_ctrl", "VarName.resize", "_varname"}

\* C16: in td_init every call of xy_addr1 comes before the one
\* VarName.resize_for_flows call, that before the one DAE.init1 call, and
\* that before every init1 call; init1 is called on exactly the registered
\* devices whose init1 flag is true, once each in registry order; the grown
\* arrays hold the slots of every allocated device.
C16_TdInitOrder ==
    (last.op = "td_init") =>
        /\ Cardinality(Places(trace, "VarName.resize_for_flows")) = 1
        /\ Cardinality(Places(trace, "DAE.init1")) = 1
        /\ \A f \in Places(trace, "VarName.resize_for_flows"), g \in Places(trace, "DAE.init1") :
              /\ f < g
              /\ \A c \in Addr1Calls : \A a \in Places(trace, c) : a < f
              /\ \A i \in Places(trace, "init1") : g < i
        /\ DevsOf(trace, "_addr") = PostflowDevs
        /\ CallsOf(trace, "init1") = Init1Due(ps)
        /\ Len(ps.DAE.x) = ps.DAE.n /\ Len(ps.DAE.y) = ps.DAE.m
        /\ \A d \in Registered :
              /\ XSlots(ps, d) \subseteq 0..(Len(ps.DAE.x) - 1)
              /\ YSlots(ps, d) \subseteq 0..(Len(ps.DAE.y) - 1)

\* C16 witness: a device of the second pass was allocated state slots, the
\* arrays were grown, and two devices were initialised in registry order,
\* one of the first pass and one of the second.
C16_Witness ==
    /\ last.op = "td_init"
    /\ CallsOf(trace, "init1") = <<Ev("init1", "Node"), Ev("init1", "SW")>>
    /\ "Node" \in PflowDevs /\ "SW" \in PostflowDevs
    /\ ps.addr["SW"].xn > 0
    /\ "Bus" \in Registered /\ ~ps.flags["Bus"].init1

\* ------------------------------------------------------------------ C17
\* a list without its entry k (the list itself when it has no entry k)
Drop(seq, k) ==
    IF k > Len(seq) THEN seq
    ELSE [i \in 1..(Len(seq) - 1) |-> IF i < k THEN seq[i] ELSE seq[i + 1]]

\* the system p as it would be had the device z never been registered
Without(p, z) ==
    LET k == CHOOSE i \in 1..Len(p.devices) : p.devices[i] = z IN
    [p EXCEPT !.devices = Drop(@, k),
              !.models = @ \ {z},
              !.Call = [pflow |-> Drop(@.pflow, k), init0 |-> Drop(@.init0, k),
                        init1 |-> Drop(@.init1, k), stagen |-> Drop(@.stagen, k)]]

\* C17: dev_setup calls setup on exactly the registered devices that have
\* instances; a device without instances that an allocation pass (setup or
\* td_init) meets gets an empty range, and every other device gets the
\* offsets, and the arrays the lengths, they would have had without it.
C17_ZeroInstanceDevice ==
    [][((pc = "new" /\ pc' = "setup") \/ (pc = "solved" /\ pc' = "td")) =>
          /\ (pc = "new") =>
                \A d \in Range(ps'.devices) :
                    CallsOn(trace', "setup", d) = (IF ps.n[d] = 0 THEN 0 ELSE 1)
          /\ \A z \in Range(ps.devices) : (ps.n[z] = 0) =>
                LET q == IF pc = "new" THEN setup(Enter(Without(ps, z))).ps
                                       ELSE td_init(Enter(Without(ps, z))).ps
                IN  /\ ps'.addr[z].set => (XSlots(ps', z) = {} /\ YSlots(ps', z) = {})
                    /\ CallsOn(trace', "_addr", z) = 1 => ps'.addr[z].set
                    /\ \A d \in Range(ps.devices) \ {z} : ps'.addr[d] = q.addr[d]
                    /\ ps'.DAE = q.DAE]_vars

\* C17 witness: after setup() a device without instances holds an empty
\* range and was not set up; a device behind it in the registry was set up
\* and holds slots that begin where the empty range lies.
C17_Witness ==
    /\ last.op = "setup"
    /\ \E i, j \in 1..Len(ps.devices) :
          LET z == ps.devices[i]
              d == ps.devices[j]
          IN  /\ i < j
              /\ z \in PflowDevs /\ d \in PflowDevs
              /\ ps.n[z] = 0 /\ ps.addr[z].set /\ YSlots(ps, z) = {}
              /\ CallsOn(trace, "setup", z) = 0 /\ CallsOn(trace, "setup", d) = 1
              /\ ps.addr[d].yn > 0 /\ ps.addr[d].y0 = ps.addr[z].y0 /\ ps.addr[d].y0 > 0

\* ------------------------------------------------------------------ C18
\* what the extractor op returns on the system p once the power flow is solved
SolvedResult(op, p, dec) ==
    LET r == Enter([p EXCEPT !.solved = TRUE]) IN
    CASE op = "get_busdata" -> get_busdata(r, dec).ret
      [] op = "get_nodedata" -> get_nodedata(r, dec).ret
      [] op = "get_linedata" -> get_linedata(r, dec).ret

\* C18: the tuple an extractor returns when the power flow is not solved has
\* as many components as the result the same extractor returns on the same
\* tables when it is solved.
C18_SentinelArity ==
    (last.op \in Extractors /\ ret.kind = "tuple") =>
        LET ok == SolvedResult(last.op, ps, last.arg) IN
        /\ ok.kind = "lists"
        /\ Len(ret.val) = Len(ok.val)

\* ------------------------------------------------------------------ C19
\* the number of disable_gen(gen) calls made on the device d in a trace
DisableCalls(t, d, gen) ==
    Cardinality({i \in Places(t, "disable_gen") : t[i].dev = d /\ t[i].gen = gen})

\* the number of entries of idx that name gen
Occurrences(idx, gen) == Cardinality({g \in 1..Len(idx) : idx[g] = gen})

\* the device d is registered with the static-generator flag and holds gen
HoldsStagen(p, d, gen) ==
    /\ d \in Range(p.devices)
    /\ p.flags[d].stagen
    /\ gen \in Range(p[d].idx)

=============================================================================
